---- MODULE Spec2Model ----
(***************************************************************************)
(* A model of the lyric-to-melody-to-vocal pipeline of OceanMusicGen:     *)
(*   scripts/enhanced_music_generator.py  (EnhancedMusicGenerator,        *)
(*       EnhancedMelodyGenerator, EnhancedVocalGenerator)                 *)
(*   scripts/lyrics_to_melody.py          (LyricsToMelodyGenerator)       *)
(*   scripts/music_generator.py           (MusicGenerator)                *)
(*                                                                         *)
(* Conventions.                                                            *)
(*  - A Python str is a sequence of one-character strings.                 *)
(*  - A Python float is an exact rational [n |-> numerator,                *)
(*    d |-> denominator > 0] in lowest terms, so two equal values are      *)
(*    equal records.  Rounding error is outside the model.                 *)
(*  - A dict is a function whose DOMAIN is its set of keys.                *)
(*  - A raised exception is a record [exc |-> type, at |-> where].         *)
(***************************************************************************)
EXTENDS Integers, Sequences, FiniteSets, TLC

(***************************************************************************)
(* Bounds of the model.                                                    *)
(***************************************************************************)
\* An emotional arc given to _determine_key_and_scale has at most MaxArc lines.
\* the most samples a Note gets when the sample streams are derived on their own
MaxPoints == 12
MaxArc == 2
\* Lyric texts have at most MaxLines lines ...
MaxLines == 3
\* ... and yield at most MaxNotes notes.
MaxNotes == 3
\* generate_song / generate_music are called at most MaxCalls times in a run.
MaxCalls == 2
\* The environment lets the clock (whole seconds) tick up to MaxClock.
MaxClock == 1
\* The pitch cursor is followed up to MaxDrift semitones away from its start.
MaxDrift == 60

\* Python's None where an object (a record of the model) is expected
None == [none |-> TRUE]
\* a value that is not a str (None, a number) where a str is expected
NotAString == <<"<not a str>">>

(***************************************************************************)
(* Exact rational arithmetic for the float-valued quantities.             *)
(***************************************************************************)
Abs(x) == IF x < 0 THEN -x ELSE x

RECURSIVE GCD(_, _)
GCD(a, b) == IF b = 0 THEN a ELSE GCD(b, a % b)

Rat(n, d) ==
    LET g == GCD(Abs(n), Abs(d))
        s == IF d < 0 THEN -1 ELSE 1
    IN  [n |-> (s * n) \div g, d |-> (s * d) \div g]

Zero == [n |-> 0, d |-> 1]
RatInt(i) == [n |-> i, d |-> 1]
RatAdd(a, b) == Rat(a.n * b.d + b.n * a.d, a.d * b.d)
RatSub(a, b) == Rat(a.n * b.d - b.n * a.d, a.d * b.d)
RatMul(a, b) == Rat(a.n * b.n, a.d * b.d)
\* a / k for an integer k # 0
RatDivInt(a, k) == Rat(a.n, a.d * k)
RatLt(a, b) == a.n * b.d < b.n * a.d
RatLe(a, b) == a.n * b.d <= b.n * a.d
RatAbs(a) == [n |-> Abs(a.n), d |-> a.d]
\* Python's int(x): truncation toward zero
Trunc(a) == IF a.n >= 0 THEN a.n \div a.d ELSE -((-a.n) \div a.d)

RECURSIVE RatSum(_)
RatSum(s) == IF s = <<>> THEN Zero ELSE RatAdd(Head(s), RatSum(Tail(s)))

RECURSIVE IntSum(_)
IntSum(s) == IF s = <<>> THEN 0 ELSE Head(s) + IntSum(Tail(s))

\* [f(s[1]), ..., f(s[n])]
Map(f(_), s) == [i \in 1..Len(s) |-> f(s[i])]

RECURSIVE Flatten(_)
Flatten(ss) == IF ss = <<>> THEN <<>> ELSE Head(ss) \o Flatten(Tail(ss))

\* a variant that gives the index of the last least element
IndexOfMin_Last(s) ==
    CHOOSE i \in 1..Len(s) :
        /\ \A j \in 1..Len(s) : s[i] <= s[j]
        /\ \A j \in (i + 1)..Len(s) : s[j] > s[i]

\* list.index(min(list)): the first position of the minimum
IndexOfMin(s) ==
    CHOOSE i \in 1..Len(s) :
        /\ \A j \in 1..Len(s) : s[i] <= s[j]
        /\ \A j \in 1..(i - 1) : s[j] > s[i]

(***************************************************************************)
(* Strings.                                                                *)
(***************************************************************************)
UpperCase == <<"A","B","C","D","E","F","G","H","I","J","K","L","M",
               "N","O","P","Q","R","S","T","U","V","W","X","Y","Z">>
LowerCase == <<"a","b","c","d","e","f","g","h","i","j","k","l","m",
               "n","o","p","q","r","s","t","u","v","w","x","y","z">>
Digits == {"0","1","2","3","4","5","6","7","8","9"}
Whitespace == {" ", "\t", "\n", "\r"}

\* str.lower(), character by character
LowerChar(c) ==
    IF \E i \in 1..26 : UpperCase[i] = c
    THEN LowerCase[CHOOSE i \in 1..26 : UpperCase[i] = c]
    ELSE c
Lower(s) == [i \in 1..Len(s) |-> LowerChar(s[i])]

\* \w of the regular expressions
IsWordChar(c) ==
    \/ \E i \in 1..26 : c = UpperCase[i] \/ c = LowerCase[i]
    \/ c \in Digits
    \/ c = "_"

IsVowel(c) == LowerChar(c) \in {"a", "e", "i", "o", "u"}

\* str.split(sep) for a one-character sep: always at least one piece
RECURSIVE SplitOn(_, _)
SplitOn(s, sep) ==
    IF \A i \in 1..Len(s) : s[i] # sep
    THEN <<s>>
    ELSE LET k == CHOOSE i \in 1..Len(s) :
                      s[i] = sep /\ \A j \in 1..(i - 1) : s[j] # sep
         IN  <<SubSeq(s, 1, k - 1)>> \o SplitOn(SubSeq(s, k + 1, Len(s)), sep)

\* str.strip()
RECURSIVE LStrip(_)
LStrip(s) ==
    IF s # <<>> /\ Head(s) \in Whitespace THEN LStrip(Tail(s)) ELSE s
RECURSIVE RStrip(_)
RStrip(s) ==
    IF s # <<>> /\ s[Len(s)] \in Whitespace
    THEN RStrip(SubSeq(s, 1, Len(s) - 1))
    ELSE s
Strip(s) == RStrip(LStrip(s))

\* Whether c belongs to a run: a run of word characters ("word") or a run of
\* non-whitespace
InRun(kind, c) == IF kind = "word" THEN IsWordChar(c) ELSE c \notin Whitespace

\* The maximal runs of characters of one kind, in order.
RECURSIVE Runs(_, _, _)
Runs(kind, s, cur) ==
    IF s = <<>>
    THEN IF cur = <<>> THEN <<>> ELSE <<cur>>
    ELSE IF InRun(kind, Head(s))
         THEN Runs(kind, Tail(s), Append(cur, Head(s)))
         ELSE (IF cur = <<>> THEN <<>> ELSE <<cur>>) \o Runs(kind, Tail(s), <<>>)

\* str.split() without argument: the runs of non-whitespace
SplitWords(s) == Runs("nonspace", s, <<>>)

\* re.findall(r'\b\w+\b', s): the maximal runs of word characters
FindWords(s) == Runs("word", s, <<>>)

\* len([c for c in word if c.lower() in 'aeiou'])
VowelCount(word) == Cardinality({i \in 1..Len(word) : IsVowel(word[i])})

Max(a, b) == IF a >= b THEN a ELSE b
Min(a, b) == IF a <= b THEN a ELSE b

\* "\n".join(lines)
RECURSIVE JoinLines(_)
JoinLines(ls) ==
    IF ls = <<>> THEN <<>>
    ELSE IF Len(ls) = 1 THEN ls[1]
    ELSE ls[1] \o <<"\n">> \o JoinLines(Tail(ls))

(***************************************************************************)
(* The fixed tables of the generators.                                     *)
(***************************************************************************)
\* dict.get(key, default)
Get(dict, key, default) == IF key \in DOMAIN dict THEN dict[key] ELSE default

\* EnhancedMelodyGenerator.scales, LyricsToMelodyGenerator.scales
scales ==
    [major |-> <<0, 2, 4, 5, 7, 9, 11>>,
     minor |-> <<0, 2, 3, 5, 7, 8, 10>>,
     dorian |-> <<0, 2, 3, 5, 7, 9, 10>>,
     mixolydian |-> <<0, 2, 4, 5, 7, 9, 10>>,
     pentatonic_major |-> <<0, 2, 4, 7, 9>>,
     pentatonic_minor |-> <<0, 3, 5, 7, 10>>,
     blues |-> <<0, 3, 5, 6, 7, 10>>]

\* EnhancedMelodyGenerator.emotion_mappings, keyed by the mood label
emotion_mappings ==
    (<<"h","a","p","p","y">> :> [scale |-> "major", tempo_mod |-> Rat(11, 10), energy |-> Rat(8, 10)])
    @@ (<<"s","a","d">> :> [scale |-> "minor", tempo_mod |-> Rat(9, 10), energy |-> Rat(4, 10)])
    @@ (<<"e","n","e","r","g","e","t","i","c">> :> [scale |-> "mixolydian", tempo_mod |-> Rat(12, 10), energy |-> Rat(9, 10)])
    @@ (<<"c","a","l","m">> :> [scale |-> "pentatonic_major", tempo_mod |-> Rat(8, 10), energy |-> Rat(3, 10)])
    @@ (<<"m","y","s","t","e","r","i","o","u","s">> :> [scale |-> "dorian", tempo_mod |-> Rat(95, 100), energy |-> Rat(5, 10)])
    @@ (<<"u","p","l","i","f","t","i","n","g">> :> [scale |-> "major", tempo_mod |-> Rat(105, 100), energy |-> Rat(7, 10)])

\* emotion_weights of both generators (the two tables are equal)
emotion_weights ==
    (<<"l","o","v","e">> :> Rat(9, 10))
    @@ (<<"j","o","y">> :> Rat(8, 10))
    @@ (<<"h","a","p","p","y">> :> Rat(7, 10))
    @@ (<<"b","e","a","u","t","i","f","u","l">> :> Rat(6, 10))
    @@ (<<"a","m","a","z","i","n","g">> :> Rat(7, 10))
    @@ (<<"w","o","n","d","e","r","f","u","l">> :> Rat(8, 10))
    @@ (<<"p","e","r","f","e","c","t">> :> Rat(6, 10))
    @@ (<<"d","r","e","a","m">> :> Rat(5, 10))
    @@ (<<"s","u","n","s","h","i","n","e">> :> Rat(7, 10))
    @@ (<<"f","r","e","e","d","o","m">> :> Rat(6, 10))
    @@ (<<"h","o","p","e">> :> Rat(5, 10))
    @@ (<<"s","m","i","l","e">> :> Rat(6, 10))
    @@ (<<"s","a","d">> :> Rat(-7, 10))
    @@ (<<"p","a","i","n">> :> Rat(-8, 10))
    @@ (<<"h","u","r","t">> :> Rat(-6, 10))
    @@ (<<"b","r","o","k","e","n">> :> Rat(-7, 10))
    @@ (<<"l","o","n","e","l","y">> :> Rat(-6, 10))
    @@ (<<"d","a","r","k">> :> Rat(-5, 10))
    @@ (<<"t","e","a","r","s">> :> Rat(-6, 10))
    @@ (<<"g","o","o","d","b","y","e">> :> Rat(-5, 10))
    @@ (<<"l","o","s","t">> :> Rat(-6, 10))
    @@ (<<"e","m","p","t","y">> :> Rat(-7, 10))
    @@ (<<"c","o","l","d">> :> Rat(-4, 10))
    @@ (<<"f","e","a","r">> :> Rat(-6, 10))
    @@ (<<"t","i","m","e">> :> Rat(0, 10))
    @@ (<<"d","a","y">> :> Rat(1, 10))
    @@ (<<"n","i","g","h","t">> :> Rat(-2, 10))
    @@ (<<"w","a","y">> :> Rat(0, 10))
    @@ (<<"l","i","f","e">> :> Rat(2, 10))
    @@ (<<"w","o","r","l","d">> :> Rat(1, 10))
    @@ (<<"h","e","a","r","t">> :> Rat(3, 10))
    @@ (<<"s","o","u","l">> :> Rat(2, 10))

\* LyricsToMelodyGenerator.stress_patterns
stress_patterns ==
    (<<"b","e","a","u","t","i","f","u","l">> :> <<TRUE, FALSE, FALSE>>)
    @@ (<<"a","m","a","z","i","n","g">> :> <<FALSE, TRUE, FALSE>>)
    @@ (<<"w","o","n","d","e","r","f","u","l">> :> <<TRUE, FALSE, FALSE>>)
    @@ (<<"t","o","g","e","t","h","e","r">> :> <<FALSE, TRUE, FALSE>>)
    @@ (<<"f","o","r","e","v","e","r">> :> <<FALSE, TRUE, FALSE>>)
    @@ (<<"r","e","m","e","m","b","e","r">> :> <<FALSE, TRUE, FALSE>>)
    @@ (<<"b","e","l","i","e","v","e">> :> <<FALSE, TRUE>>)
    @@ (<<"f","r","e","e","d","o","m">> :> <<TRUE, FALSE>>)
    @@ (<<"s","u","n","s","h","i","n","e">> :> <<TRUE, FALSE>>)

\* EnhancedMusicGenerator.genre_configs
genre_configs ==
    (<<"p","o","p">> :> [tempo_range |-> <<100, 140>>,
              structure |-> <<"intro", "verse", "chorus", "verse", "chorus", "bridge", "chorus", "outro">>,
              vocal_style |-> "clear_melodic"])
    @@ (<<"r","o","c","k">> :> [tempo_range |-> <<110, 160>>,
              structure |-> <<"intro", "verse", "chorus", "verse", "chorus", "solo", "chorus", "outro">>,
              vocal_style |-> "powerful_raspy"])
    @@ (<<"e","l","e","c","t","r","o","n","i","c">> :> [tempo_range |-> <<120, 140>>,
              structure |-> <<"intro", "buildup", "drop", "breakdown", "buildup", "drop", "outro">>,
              vocal_style |-> "processed_synthetic"])

\* genre_adjustments of _generate_audio_features
genre_adjustments ==
    (<<"p","o","p">> :> [danceability |-> Rat(8, 10), energy |-> Rat(7, 10), acousticness |-> Rat(2, 10)])
    @@ (<<"r","o","c","k">> :> [energy |-> Rat(9, 10), acousticness |-> Rat(1, 10), danceability |-> Rat(6, 10)])
    @@ (<<"e","l","e","c","t","r","o","n","i","c">> :> [danceability |-> Rat(9, 10), energy |-> Rat(8, 10), acousticness |-> Rat(5, 100)])
    @@ (<<"f","o","l","k">> :> [acousticness |-> Rat(8, 10), energy |-> Rat(4, 10), danceability |-> Rat(3, 10)])

note_names == << <<"C">>, <<"C","#">>, <<"D">>, <<"D","#">>, <<"E">>, <<"F">>,
                 <<"F","#">>, <<"G">>, <<"G","#">>, <<"A">>, <<"A","#">>, <<"B">> >>

\* str(i) for an integer i
RECURSIVE NatToStr(_)
NatToStr(i) ==
    LET digit == <<"0","1","2","3","4","5","6","7","8","9">>[(i % 10) + 1]
    IN  IF i < 10 THEN <<digit>> ELSE Append(NatToStr(i \div 10), digit)
IntToStr(i) == IF i < 0 THEN <<"-">> \o NatToStr(-i) ELSE NatToStr(i)

\* _midi_to_note_name / midi_to_note_name
midi_to_note_name(midi_note) ==
    note_names[(midi_note % 12) + 1] \o IntToStr((midi_note \div 12) - 1)

(***************************************************************************)
(* Exceptions.                                                             *)
(***************************************************************************)
Raise(type, where) == [exc |-> type, at |-> where]
IsExc(v) == DOMAIN v = {"exc", "at"}

(***************************************************************************)
(* Lyric analysis.                                                         *)
(***************************************************************************)
\* np.mean of a non-empty list of floats
Mean(s) == RatDivInt(RatSum(s), Len(s))

\* a variant that cuts the text at every run of white space
NonBlankLines_AtEverySpace(lyrics) == SplitWords(lyrics)

\* [line.strip() for line in lyrics.split('\n') if line.strip()]
NonBlankLines(lyrics) ==
    LET stripped == Map(Strip, SplitOn(lyrics, "\n"))
    IN  SelectSeq(stripped, LAMBDA l : l # <<>>)

\* the weight of one word: emotion_weights.get(word, 0.0)
WordEmotion(word) == Get(emotion_weights, word, Zero)

\* np.mean([emotion_weights.get(word, 0.0) for word in line.lower().split()])
LineEmotion(line) == Mean(Map(WordEmotion, SplitWords(Lower(line))))

\* max(1, number of vowels of the word)
SyllableCount(word) == Max(1, VowelCount(word))

\* a variant that marks two syllables at most
DefaultStress_TwoAtMost(syllable_count) ==
    IF syllable_count = 1 THEN <<TRUE>> ELSE <<TRUE, FALSE>>

\* the stress pattern derived from the syllable count
DefaultStress(syllable_count) ==
    IF syllable_count = 1 THEN <<TRUE>>
    ELSE IF syllable_count = 2 THEN <<TRUE, FALSE>>
    ELSE [i \in 1..syllable_count |-> (i - 1) % 2 = 0]

\* EnhancedMelodyGenerator._analyze_lyrics_structure
AnalyzeLyricsStructure(lyrics) ==
    LET lines == NonBlankLines(lyrics)
        count(line) == IntSum(Map(SyllableCount, SplitWords(Lower(line))))
        syllable_counts == Map(count, lines)
    IN  [lines |-> lines,
         line_count |-> Len(lines),
         emotional_arc |-> Map(LineEmotion, lines),
         syllable_counts |-> syllable_counts,
         total_syllables |-> IntSum(syllable_counts)]

\* one entry of syllable_data, enhanced generator (no override table)
WordData(word) ==
    [word |-> word,
     syllable_count |-> SyllableCount(word),
     stress_pattern |-> DefaultStress(SyllableCount(word)),
     emotion_weight |-> WordEmotion(word)]

\* EnhancedMelodyGenerator._analyze_line_syllables
AnalyzeLineSyllables(line) == Map(WordData, SplitWords(Lower(line)))

\* one entry of syllable_data, LyricsToMelodyGenerator (override table first)
WordDataWithOverrides(word) ==
    [word |-> word,
     syllable_count |-> SyllableCount(word),
     stress_pattern |-> IF word \in DOMAIN stress_patterns
                        THEN stress_patterns[word]
                        ELSE DefaultStress(SyllableCount(word)),
     emotion_weight |-> WordEmotion(word)]

\* LyricsToMelodyGenerator.analyze_syllables
analyze_syllables(text) == Map(WordDataWithOverrides, FindWords(Lower(text)))

(***************************************************************************)
(* Key, scale and audio features.                                         *)
(***************************************************************************)
\* a variant that counts the thresholds themselves as major and minor
ScaleFromEmotion_Inclusive(avg_emotion) ==
    IF RatLe(Rat(3, 10), avg_emotion) THEN "major"
    ELSE IF RatLe(avg_emotion, Rat(-3, 10)) THEN "minor"
    ELSE "dorian"

\* the scale chosen from the average emotion alone
ScaleFromEmotion(avg_emotion) ==
    IF RatLt(Rat(3, 10), avg_emotion) THEN "major"
    ELSE IF RatLt(avg_emotion, Rat(-3, 10)) THEN "minor"
    ELSE "dorian"

\* np.mean(emotional_arc) if emotional_arc else 0
AvgEmotion(emotional_arc) ==
    IF emotional_arc = <<>> THEN Zero ELSE Mean(emotional_arc)

\* _determine_key_and_scale: the scale name
DetermineScale(emotional_arc, mood) ==
    IF Lower(mood) \in DOMAIN emotion_mappings
    THEN emotion_mappings[Lower(mood)].scale
    ELSE ScaleFromEmotion(AvgEmotion(emotional_arc))

\* a variant that cuts the ranges at the thresholds of the scale choice
RootCandidates_AtScaleThresholds(emotional_arc) ==
    LET avg_emotion == AvgEmotion(emotional_arc)
    IN  IF RatLt(Rat(3, 10), avg_emotion) THEN {60, 62, 64, 67}
        ELSE IF RatLt(avg_emotion, Rat(-3, 10)) THEN {57, 59, 61, 65}
        ELSE {60, 62, 65, 67}

\* _determine_key_and_scale: the candidates np.random.choice draws the root from
RootCandidates(emotional_arc) ==
    LET avg_emotion == AvgEmotion(emotional_arc)
    IN  IF RatLt(Rat(5, 10), avg_emotion) THEN {60, 62, 64, 67}
        ELSE IF RatLt(avg_emotion, Rat(-5, 10)) THEN {57, 59, 61, 65}
        ELSE {60, 62, 65, 67}

\* a variant that scales the energy it finds by the mood's tempo_mod
ApplyMood_Scaling(features, mood) ==
    IF Lower(mood) \in DOMAIN emotion_mappings
    THEN LET mood_config == emotion_mappings[Lower(mood)]
         IN  [features EXCEPT
                 !.energy = RatMul(@, mood_config.tempo_mod),
                 !.valence = IF RatLt(Rat(6, 10), mood_config.energy)
                             THEN Rat(8, 10) ELSE Rat(3, 10)]
    ELSE features

\* the mood adjustment of _generate_audio_features
ApplyMood(features, mood) ==
    IF Lower(mood) \in DOMAIN emotion_mappings
    THEN LET mood_config == emotion_mappings[Lower(mood)]
         IN  [features EXCEPT
                 !.energy = mood_config.energy,
                 !.valence = IF RatLt(Rat(6, 10), mood_config.energy)
                             THEN Rat(8, 10) ELSE Rat(3, 10)]
    ELSE features

\* the genre adjustment of _generate_audio_features: setattr for every entry
ApplyGenre(features, genre) ==
    IF Lower(genre) \in DOMAIN genre_adjustments
    THEN LET adj == genre_adjustments[Lower(genre)]
         IN  [k \in DOMAIN features |->
                 IF k \in DOMAIN adj THEN adj[k] ELSE features[k]]
    ELSE features

\* a variant that adjusts for the genre first and for the mood last
GenerateAudioFeatures_MoodLast(genre, mood, tempo, root_note, scale_name) ==
    LET features == [tempo |-> tempo,
                     key |-> midi_to_note_name(root_note),
                     time_signature |-> "4/4",
                     energy |-> Rat(7, 10),
                     valence |-> Rat(5, 10),
                     danceability |-> Rat(6, 10),
                     acousticness |-> Rat(3, 10),
                     instrumentalness |-> Rat(1, 10)]
    IN  ApplyMood(ApplyGenre(features, genre), mood)

\* EnhancedMelodyGenerator._generate_audio_features
GenerateAudioFeatures(genre, mood, tempo, root_note, scale_name) ==
    LET features == [tempo |-> tempo,
                     key |-> midi_to_note_name(root_note),
                     time_signature |-> "4/4",
                     energy |-> Rat(7, 10),
                     valence |-> Rat(5, 10),
                     danceability |-> Rat(6, 10),
                     acousticness |-> Rat(3, 10),
                     instrumentalness |-> Rat(1, 10)]
    IN  ApplyGenre(ApplyMood(features, mood), genre)

(***************************************************************************)
(* Melodic contour: one Note per syllable.                                 *)
(***************************************************************************)
\* the values np.random.choice([-1, 0, 1]) can return
Jitter == {-1, 0, 1}

\* the (word, syllable) pairs in the order the two nested loops visit them
SyllableSlots(syllable_data) ==
    LET slotsOf(word_data) ==
            [i \in 1..Len(word_data.stress_pattern) |->
                [word |-> word_data.word,
                 syl_idx |-> i - 1,
                 is_stressed |-> word_data.stress_pattern[i],
                 word_emotion |-> word_data.emotion_weight,
                 pattern_len |-> Len(word_data.stress_pattern)]]
    IN  Flatten(Map(slotsOf, syllable_data))

\* pitch_change before the random variation
PitchChange(is_stressed, word_emotion) ==
    IF is_stressed
    THEN 2 + Trunc(RatMul(word_emotion, RatInt(2)))
    ELSE -1 + Trunc(word_emotion)

\* a variant without the correction
QuantizeDegree_Uncorrected(scale_degree, scale_notes) == scale_degree

\* "Constrain to scale": the scale degree after the correction
QuantizeDegree(scale_degree, scale_notes) ==
    IF \E i \in 1..Len(scale_notes) : scale_notes[i] = scale_degree
    THEN scale_degree
    ELSE LET distances == [i \in 1..Len(scale_notes) |->
                              Abs(scale_degree - scale_notes[i])]
         IN  scale_notes[IndexOfMin(distances)]

\* final_pitch from the pitch cursor
FinalPitch(current_pitch, root_note, scale_notes) ==
    root_note
    + QuantizeDegree((current_pitch - root_note) % 12, scale_notes)
    + ((current_pitch - root_note) \div 12) * 12

\* a variant that adds the whole emotion weight to a stressed note
NoteDuration_FullWeight(is_stressed, emotion_weight, tempo) ==
    RatMul(IF is_stressed THEN RatAdd(Rat(3, 4), emotion_weight) ELSE Rat(1, 2),
           Rat(120, tempo))

\* duration in beats, enhanced generator; tempo # 0
NoteDuration(is_stressed, emotion_weight, tempo) ==
    RatMul(IF is_stressed
           THEN RatAdd(Rat(3, 4), RatMul(emotion_weight, Rat(1, 4)))
           ELSE Rat(1, 2),
           Rat(120, tempo))

\* duration in beats, LyricsToMelodyGenerator; tempo # 0
SimpleNoteDuration(is_stressed, tempo) ==
    RatMul(IF is_stressed THEN Rat(3, 4) ELSE Rat(1, 2), Rat(120, tempo))

\* a variant with softer unstressed syllables
NoteVelocity_SoftUnstressed(is_stressed, word_emotion) ==
    Max(40, Min(127, (IF is_stressed THEN 90 ELSE 50)
                     + Trunc(RatMul(RatAbs(word_emotion), RatInt(20)))))

\* velocity, clamped
NoteVelocity(is_stressed, word_emotion) ==
    Max(40, Min(127, (IF is_stressed THEN 90 ELSE 70)
                     + Trunc(RatMul(RatAbs(word_emotion), RatInt(20)))))

\* f"{word}[{syl_idx}]" if len(stress_pattern) > 1 else word
SyllableText(slot) ==
    IF slot.pattern_len > 1
    THEN slot.word \o <<"[">> \o IntToStr(slot.syl_idx) \o <<"]">>
    ELSE slot.word

\* the loop of _generate_phrase_from_line from slot k on
RECURSIVE WalkNotes(_, _, _, _, _, _)
WalkNotes(slots, jitter, k, current_pitch, current_time, ctx) ==
    IF k > Len(slots) THEN <<>>
    ELSE LET slot == slots[k]
             pitch == current_pitch
                      + PitchChange(slot.is_stressed, slot.word_emotion)
                      + jitter[k]
             duration == NoteDuration(slot.is_stressed, ctx.emotion_weight, ctx.tempo)
             note == [pitch |-> FinalPitch(pitch, ctx.root_note, ctx.scale_notes),
                      duration |-> duration,
                      velocity |-> NoteVelocity(slot.is_stressed, slot.word_emotion),
                      syllable |-> SyllableText(slot),
                      timestamp |-> current_time]
         IN  <<note>> \o WalkNotes(slots, jitter, k + 1, pitch,
                                   RatAdd(current_time, duration), ctx)

\* a variant whose notes are timed from 0 in every phrase
GeneratePhraseFromLine_FromZero(line, syllable_data, emotion_weight, root_note, scale_name, start_time, tempo, jitter) ==
    LET slots == SyllableSlots(syllable_data)
        ctx == [emotion_weight |-> emotion_weight, root_note |-> root_note,
                scale_notes |-> scales[scale_name], tempo |-> tempo]
    IN  IF slots # <<>> /\ tempo = 0
        THEN Raise("ZeroDivisionError", "_generate_phrase_from_line")
        ELSE [notes |-> WalkNotes(slots, jitter, 1, root_note + 12, Zero, ctx),
              start_time |-> start_time,
              emotion_weight |-> emotion_weight,
              lyric_line |-> line]

\* EnhancedMelodyGenerator._generate_phrase_from_line; jitter[k] is the k-th
\* draw of np.random.choice.  120 / tempo raises when tempo is 0.
GeneratePhraseFromLine(line, syllable_data, emotion_weight, root_note, scale_name, start_time, tempo, jitter) ==
    LET slots == SyllableSlots(syllable_data)
        ctx == [emotion_weight |-> emotion_weight, root_note |-> root_note,
                scale_notes |-> scales[scale_name], tempo |-> tempo]
    IN  IF slots # <<>> /\ tempo = 0
        THEN Raise("ZeroDivisionError", "_generate_phrase_from_line")
        ELSE [notes |-> WalkNotes(slots, jitter, 1, root_note + 12, start_time, ctx),
              start_time |-> start_time,
              emotion_weight |-> emotion_weight,
              lyric_line |-> line]

\* the note loop of convert_lyrics_to_melody from slot k on
RECURSIVE WalkSimpleNotes(_, _, _, _, _)
WalkSimpleNotes(slots, jitter, k, current_pitch, ctx) ==
    IF k > Len(slots) THEN <<>>
    ELSE LET slot == slots[k]
             pitch == current_pitch
                      + PitchChange(slot.is_stressed, slot.word_emotion)
                      + jitter[k]
             note == [pitch |-> FinalPitch(pitch, ctx.root_note, ctx.scale_notes),
                      duration |-> SimpleNoteDuration(slot.is_stressed, ctx.tempo),
                      velocity |-> NoteVelocity(slot.is_stressed, slot.word_emotion),
                      syllable |-> SyllableText(slot)]
         IN  <<note>> \o WalkSimpleNotes(slots, jitter, k + 1, pitch, ctx)

\* sum(note.duration for note in notes)
NotesDuration(notes) == RatSum([i \in 1..Len(notes) |-> notes[i].duration])

(***************************************************************************)
(* Vocal parameters derived from a melody.                                 *)
(***************************************************************************)
\* every note of the melody, phrase by phrase
AllNotes(melody) ==
    Flatten([i \in 1..Len(melody.phrases) |-> melody.phrases[i].notes])

\* list(note.syllable.split('[')[0].lower())
PhonemesOf(note) == Lower(SplitOn(note.syllable, "[")[1])

\* the PhonemeEvents of one note; PhonemesOf(note) is not empty
NotePhonemeTiming(note) ==
    LET phonemes == PhonemesOf(note)
        phoneme_duration == RatDivInt(note.duration, Len(phonemes))
    IN  [i \in 1..Len(phonemes) |->
            [phoneme |-> phonemes[i],
             start_time |-> RatAdd(note.timestamp,
                                   RatMul(RatInt(i - 1), phoneme_duration)),
             duration |-> phoneme_duration,
             pitch |-> note.pitch,
             velocity |-> note.velocity]]

\* note.duration / len(phonemes) divides by zero for some note
PhonemeTimingRaises(melody) ==
    \E i \in 1..Len(AllNotes(melody)) : PhonemesOf(AllNotes(melody)[i]) = <<>>

\* EnhancedVocalGenerator._generate_phoneme_timing, when it does not raise
GeneratePhonemeTiming(melody) ==
    Flatten(Map(NotePhonemeTiming, AllNotes(melody)))

\* max(1, int(note.duration * 10))
NumPoints(note) == Max(1, Trunc(RatMul(note.duration, RatInt(10))))

\* The draws of np.random.normal(0, 2) are taken from a repeating pattern of
\* whole units; the pattern is chosen once per call.
NoisePatterns == {<<0>>, <<-1, 2>>}

\* EnhancedVocalGenerator._extract_pitch_contour.  A sample is kept as the
\* pitch whose frequency 440 * 2^((pitch - 69) / 12) it carries and the
\* variation added to it.
RECURSIVE ContourFrom(_, _, _)
ContourFrom(notes, noise, drawn) ==
    IF notes = <<>> THEN <<>>
    ELSE LET num_points == NumPoints(Head(notes))
         IN  [i \in 1..num_points |->
                 [pitch |-> Head(notes).pitch,
                  variation |-> noise[((drawn + i - 1) % Len(noise)) + 1]]]
             \o ContourFrom(Tail(notes), noise, drawn + num_points)
ExtractPitchContour(melody, noise) == ContourFrom(AllNotes(melody), noise, 0)

\* a variant whose release falls over the last tenth of the samples
Envelope_ShortRelease(i, num_points) ==
    IF 10 * i < num_points THEN Rat(10 * i, num_points)
    ELSE IF 10 * i > 8 * num_points THEN Rat(10 * (num_points - i), num_points)
    ELSE RatInt(1)

\* a variant without the attack
Envelope_NoAttack(i, num_points) ==
    IF 10 * i > 8 * num_points THEN Rat(5 * (num_points - i), num_points)
    ELSE RatInt(1)

\* the attack / sustain / release factor of sample i of num_points (i from 0)
Envelope(i, num_points) ==
    IF 10 * i < num_points THEN Rat(10 * i, num_points)
    ELSE IF 10 * i > 8 * num_points THEN Rat(5 * (num_points - i), num_points)
    ELSE RatInt(1)

\* a variant that takes one sample per whole beat
NoteDynamics_PerBeat(note) ==
    LET amplitude == Rat(note.velocity, 127)
        num_points == Max(1, Trunc(note.duration))
    IN  [k \in 1..num_points |-> RatMul(amplitude, Envelope(k - 1, num_points))]

\* the dynamics samples of one note
NoteDynamics(note) ==
    LET amplitude == Rat(note.velocity, 127)
        num_points == NumPoints(note)
    IN  [k \in 1..num_points |-> RatMul(amplitude, Envelope(k - 1, num_points))]

\* EnhancedVocalGenerator._generate_dynamics
GenerateDynamics(melody) == Flatten(Map(NoteDynamics, AllNotes(melody)))

\* EnhancedVocalGenerator._generate_vocal_effects
GenerateVocalEffects(voice_settings) ==
    [reverb |-> Rat(3, 10),
     chorus |-> Rat(2, 10),
     vibrato_rate |-> RatInt(5),
     vibrato_depth |-> voice_settings.vibrato_intensity,
     breath_noise |-> RatSub(RatInt(1), voice_settings.breath_control),
     compression |-> Rat(6, 10),
     eq_low |-> Zero,
     eq_mid |-> Rat(1, 10),
     eq_high |-> Rat(2, 10)]

\* min(...) / max(...) of a non-empty list of floats
RatMin(s) == s[CHOOSE i \in 1..Len(s) : \A j \in 1..Len(s) : RatLe(s[i], s[j])]
RatMax(s) == s[CHOOSE i \in 1..Len(s) : \A j \in 1..Len(s) : RatLe(s[j], s[i])]

\* min(pitch_contour) / min(dynamics) raise ValueError on an empty list
SynthesizeRaises(pitch_contour, dynamics) ==
    pitch_contour = <<>> \/ dynamics = <<>>

\* EnhancedVocalGenerator._synthesize_vocal_track, when it does not raise.
\* metadata.pitch_range, the extreme frequencies, is not represented.
SynthesizeVocalTrack(melody, phoneme_timing, pitch_contour, dynamics, voice_settings, user_voice_sample) ==
    [sample_rate |-> 44100,
     duration |-> melody.total_duration,
     channels |-> 1,
     format |-> "wav",
     synthesis_method |-> IF user_voice_sample # None
                          THEN "neural_vocoder" ELSE "parametric",
     voice_model |-> voice_settings.voice_type,
     metadata |-> [phoneme_count |-> Len(phoneme_timing),
                   dynamic_range |-> <<RatMin(dynamics), RatMax(dynamics)>>,
                   voice_settings |-> voice_settings]]

\* the default VocalSettings of generate_vocals_with_melody
DefaultVoiceSettings ==
    [voice_type |-> "male_lead",
     pitch_range |-> <<60, 84>>,
     vibrato_intensity |-> Rat(3, 10),
     breath_control |-> Rat(7, 10),
     articulation_style |-> "clear_melodic"]

\* EnhancedVocalGenerator.generate_vocals_with_melody: the exception it
\* raises for this melody, or None
VocalsException(melody, noise) ==
    IF PhonemeTimingRaises(melody)
    THEN Raise("ZeroDivisionError", "_generate_phoneme_timing")
    ELSE IF SynthesizeRaises(ExtractPitchContour(melody, noise),
                             GenerateDynamics(melody))
    THEN Raise("ValueError", "_synthesize_vocal_track")
    ELSE None

\* EnhancedVocalGenerator.generate_vocals_with_melody, when it does not raise
GenerateVocalsWithMelody(lyrics, melody, voice_settings, user_voice_sample, noise) ==
    LET settings == IF voice_settings = None
                    THEN DefaultVoiceSettings ELSE voice_settings
        phoneme_timing == GeneratePhonemeTiming(melody)
        pitch_contour == ExtractPitchContour(melody, noise)
        dynamics == GenerateDynamics(melody)
    IN  [vocal_track |-> SynthesizeVocalTrack(melody, phoneme_timing,
                             pitch_contour, dynamics, settings, user_voice_sample),
         phoneme_timing |-> phoneme_timing,
         pitch_contour |-> pitch_contour,
         dynamics |-> dynamics,
         vocal_effects |-> GenerateVocalEffects(settings)]

(***************************************************************************)
(* The calls a run can make.                                               *)
(***************************************************************************)
Title == <<"M","y"," ","S","o","n","g">>
SongLines ==
    {<<" ">>, <<"[","x">>, <<"L","o","v","e">>, <<"a"," ","s","a","d">>,
     <<"a","m","a","z","i","n","g">>}
SimpleLines ==
    {<<" ">>, <<"!","!","!">>, <<"s","a","d">>, <<"b","e","l","i","e","v","e">>,
     <<"b","e","a","u","t","i","f","u","l">>}

\* the texts of at most MaxLines lines taken from Lines
TextsOf(Lines) ==
    {JoinLines(ls) : ls \in UNION {[1..n -> Lines] : n \in 0..MaxLines}}

\* the number of notes convert_lyrics_to_melody makes of a text
SimpleNoteCount(text) ==
    LET lines == NonBlankLines(text)
    IN  IntSum([i \in 1..Len(lines) |-> Len(SyllableSlots(analyze_syllables(lines[i])))])

SongTexts ==
    {t \in TextsOf(SongLines) : AnalyzeLyricsStructure(t).total_syllables <= MaxNotes}
SimpleTexts ==
    {t \in TextsOf(SimpleLines) : SimpleNoteCount(t) <= MaxNotes}

Sad == <<"s","a","d">>
Pain == <<"p","a","i","n">>
Pop == <<"p","o","p">>

\* the texts of a single line
OneLine(texts) == {t \in texts : \A i \in 1..Len(t) : t[i] # "\n"}

\* a caller's VocalSettings whose pitch_range has low above high
InvertedVoiceSettings ==
    [voice_type |-> "female_lead",
     pitch_range |-> <<84, 60>>,
     vibrato_intensity |-> Rat(3, 10),
     breath_control |-> Rat(7, 10),
     articulation_style |-> "clear_melodic"]

\* song_data dicts passed to generate_song
SongInputs ==
    {[title |-> Title, lyrics |-> t, genre |-> Pop,
      mood |-> <<"H","a","p","p","y">>, tempo |-> 120] : t \in SongTexts}
    \cup {[title |-> Title, lyrics |-> t, genre |-> <<"f","o","l","k">>,
           mood |-> <<"m","o","o","d","y">>, tempo |-> 90] :
              t \in OneLine(SongTexts) \cup {Sad, Pain}}
    \cup {[title |-> Title, lyrics |-> Sad, genre |-> Pop, mood |-> Sad, tempo |-> 120],
          [title |-> Title, lyrics |-> Sad,
           genre |-> <<"e","l","e","c","t","r","o","n","i","c">>, mood |-> Sad],
          [title |-> Title, lyrics |-> Sad, genre |-> NotAString,
           mood |-> Sad, tempo |-> 120],
          [title |-> Title, lyrics |-> Sad, genre |-> Pop, tempo |-> 120],
          [title |-> Title, lyrics |-> Sad, genre |-> Pop, mood |-> Sad, tempo |-> 0],
          [lyrics |-> Sad, genre |-> Pop, mood |-> Sad, tempo |-> 120],
          [title |-> Title, lyrics |-> Sad, genre |-> <<"j","a","z","z">>, mood |-> Sad],
          [title |-> Title, lyrics |-> Sad, genre |-> <<"R","o","c","k">>, mood |-> Sad],
          [title |-> Title, lyrics |-> Sad, mood |-> Sad],
          [title |-> Title, lyrics |-> Sad, genre |-> Pop, mood |-> Sad, tempo |-> 120,
           vocal_settings |-> InvertedVoiceSettings]}

\* arguments of convert_lyrics_to_melody (tempo is positive)
ConvertInputs ==
    {[lyrics |-> t, genre |-> Pop, tempo |-> 120] : t \in SimpleTexts}
    \cup {[lyrics |-> t, genre |-> Pop, tempo |-> 90] : t \in OneLine(SimpleTexts)}

\* MusicConfig objects passed to generate_music
MusicInputs ==
    {[title |-> Title, lyrics |-> t] : t \in {<<>>, Sad, <<"L","o","v","e">>}}

Calls ==
    {[entry |-> "generate_song", arg |-> a] : a \in SongInputs}
    \cup {[entry |-> "convert_lyrics_to_melody", arg |-> a] : a \in ConvertInputs}
    \cup {[entry |-> "generate_music", arg |-> a] : a \in MusicInputs}

\* the calls of the runs that make several calls
FewCalls ==
    {c \in Calls : /\ c.arg.lyrics = Sad
                    /\ \/ c.entry = "generate_music"
                       \/ "tempo" \in DOMAIN c.arg /\ c.arg.tempo = 120}

(***************************************************************************)
(* State.                                                                  *)
(***************************************************************************)
VARIABLES
    call,             \* the call in progress: [entry, arg]
    pc,               \* where the call is
    enhanced_data,    \* generate_song: the dict _enhance_song_data returned
    mg,               \* the locals of generate_melody_from_lyrics
    melody,           \* generate_song: the GeneratedMelody
    vocals,           \* generate_song: the GeneratedVocals
    song,             \* the Song generate_song returned
    error,            \* the exception caught by generate_song's except clause
    raised,           \* the exceptions generate_song raised to its caller
    conv,             \* the locals of convert_lyrics_to_melody
    result,           \* what convert_lyrics_to_melody / generate_music returned
    generated_songs,  \* MusicGenerator.generated_songs
    song_ids,         \* the ids of the Songs generate_song returned so far
    clock,            \* time.time(), in whole seconds
    calls,            \* the number of calls made so far
    walk,             \* a pitch cursor followed on its own: [root_note,
                      \* scale_name, current_pitch, final_pitch, steps]
    draws,            \* the values the random generator returned in this call
    first,            \* what an earlier call of generate_song drew and made
    unit              \* a helper method called on its own: its name, its
                      \* arguments and what it returned

vars == <<call, pc, enhanced_data, mg, melody, vocals, song, error, raised,
          conv, result, generated_songs, song_ids, clock, calls, walk,
          draws, first, unit>>

songVars == <<enhanced_data, mg, melody, vocals, song, error, raised, draws>>
histVars == <<generated_songs, song_ids, clock, calls, walk, first, unit>>

StartOf(c) ==
    /\ call = c
    /\ pc = "called"
    /\ enhanced_data = None
    /\ mg = None
    /\ melody = None
    /\ vocals = None
    /\ song = None
    /\ error = None
    /\ raised = <<>>
    /\ conv = None
    /\ result = None
    /\ draws = <<>>

InitWith(CallSet) ==
    /\ \E c \in CallSet : StartOf(c)
    /\ generated_songs = <<>>
    /\ song_ids = <<>>
    /\ clock = 0
    /\ calls = 1
    /\ walk = None
    /\ first = None
    /\ unit = None

Init == InitWith(Calls)

(***************************************************************************)
(* generate_song.                                                          *)
(***************************************************************************)
\* the except clause is entered with the exception e
Except(e) ==
    /\ error' = e
    /\ pc' = "except"

\* the dict _enhance_song_data returns; tempo is the value drawn by
\* np.random.randint for a song_data without a tempo
EnhanceSongData(song_data, tempo) ==
    LET genre == Lower(Get(song_data, "genre", Pop))
        config == Get(genre_configs, genre, genre_configs[Pop])
        defaults ==
            [tempo |-> tempo,
             structure |-> config.structure,
             vocal_settings |->
                 [voice_type |-> Get(song_data, "vocals", "male_lead"),
                  pitch_range |-> <<60, 84>>,
                  vibrato_intensity |-> Rat(3, 10),
                  breath_control |-> Rat(7, 10),
                  articulation_style |-> config.vocal_style]]
    IN  song_data @@ defaults

\* a variant that draws from the range of 'pop' for every genre
TempoDraws_AlwaysPop(song_data) ==
    LET range == genre_configs[Pop].tempo_range
    IN  range[1]..(range[2] - 1)

\* the range np.random.randint(tempo_min, tempo_max) draws from
TempoDraws(song_data) ==
    LET genre == Lower(Get(song_data, "genre", Pop))
        range == Get(genre_configs, genre, genre_configs[Pop]).tempo_range
    IN  range[1]..(range[2] - 1)

\* generate_song up to the return of _enhance_song_data
Enhance ==
    /\ call.entry = "generate_song"
    /\ pc = "called"
    /\ IF Get(call.arg, "genre", Pop) = NotAString
       THEN /\ Except(Raise("AttributeError", "_enhance_song_data"))
            /\ UNCHANGED <<enhanced_data, draws>>
       ELSE /\ \E tempo \in IF "tempo" \in DOMAIN call.arg
                            THEN {call.arg.tempo} ELSE TempoDraws(call.arg) :
                   /\ enhanced_data' = EnhanceSongData(call.arg, tempo)
                   /\ draws' = IF "tempo" \in DOMAIN call.arg THEN draws
                                ELSE Append(draws, [tempo |-> tempo])
            /\ pc' = "enhanced"
            /\ UNCHANGED error
    /\ UNCHANGED <<call, mg, melody, vocals, song, raised, conv, result>>
    /\ UNCHANGED histVars

\* the key enhanced_data[...] fails on when the arguments of
\* generate_melody_from_lyrics are evaluated, or None
MissingKey(data, keys) ==
    IF \A i \in 1..Len(keys) : keys[i] \in DOMAIN data
    THEN None
    ELSE Raise("KeyError", "generate_song")

\* a variant whose melody time does not start afresh in a later call
MelodyFrame_TimeCarriedOver(lyrics, genre, mood, tempo, root) ==
    LET lyric_analysis == AnalyzeLyricsStructure(lyrics)
        scale_name == DetermineScale(lyric_analysis.emotional_arc, mood)
    IN  [lyric_analysis |-> lyric_analysis,
         root_note |-> root,
         scale_name |-> scale_name,
         audio_features |-> GenerateAudioFeatures(genre, mood, tempo, root, scale_name),
         melody_phrases |-> <<>>,
         current_time |-> RatInt(calls - 1),
         line_idx |-> 0,
         line_syllables |-> <<>>]

\* generate_melody_from_lyrics up to the phrase loop: the analysis, the key
\* and scale (root is the draw of np.random.choice), the audio features
MelodyFrame(lyrics, genre, mood, tempo, root) ==
    LET lyric_analysis == AnalyzeLyricsStructure(lyrics)
        scale_name == DetermineScale(lyric_analysis.emotional_arc, mood)
    IN  [lyric_analysis |-> lyric_analysis,
         root_note |-> root,
         scale_name |-> scale_name,
         audio_features |-> GenerateAudioFeatures(genre, mood, tempo, root, scale_name),
         melody_phrases |-> <<>>,
         current_time |-> Zero,
         line_idx |-> 0,
         line_syllables |-> <<>>]

StartMelody ==
    /\ call.entry = "generate_song"
    /\ pc = "enhanced"
    /\ LET missing == MissingKey(enhanced_data, <<"lyrics", "genre", "mood", "tempo">>)
       IN  IF missing # None
           THEN /\ Except(missing)
                /\ UNCHANGED <<mg, draws>>
           ELSE IF enhanced_data.mood = NotAString
           THEN /\ Except(Raise("AttributeError", "_determine_key_and_scale"))
                /\ UNCHANGED <<mg, draws>>
           ELSE /\ \E root \in RootCandidates(
                                 AnalyzeLyricsStructure(enhanced_data.lyrics).emotional_arc) :
                       /\ mg' = MelodyFrame(enhanced_data.lyrics, enhanced_data.genre,
                                            enhanced_data.mood, enhanced_data.tempo, root)
                       /\ draws' = Append(draws, [root |-> root])
                /\ pc' = "phrases"
                /\ UNCHANGED error
    /\ UNCHANGED <<call, enhanced_data, melody, vocals, song, raised, conv, result>>
    /\ UNCHANGED histVars

\* one iteration of the loop over lyric_analysis['lines']
GeneratePhrase ==
    /\ call.entry = "generate_song"
    /\ pc = "phrases"
    /\ mg.line_idx < Len(mg.lyric_analysis.lines)
    /\ LET line == mg.lyric_analysis.lines[mg.line_idx + 1]
           line_syllables == AnalyzeLineSyllables(line)
           emotion_weight == mg.lyric_analysis.emotional_arc[mg.line_idx + 1]
       IN  IF Strip(line) = <<>>
           THEN /\ mg' = [mg EXCEPT !.line_idx = @ + 1]
                /\ UNCHANGED <<pc, error, draws>>
           ELSE \E jitter \in [1..Len(SyllableSlots(line_syllables)) -> Jitter] :
                   LET phrase == GeneratePhraseFromLine(line, line_syllables,
                                     emotion_weight, mg.root_note, mg.scale_name,
                                     mg.current_time, enhanced_data.tempo, jitter)
                   IN  IF IsExc(phrase)
                       THEN /\ Except(phrase)
                            /\ UNCHANGED <<mg, draws>>
                       ELSE /\ mg' = [mg EXCEPT
                                        !.line_syllables = line_syllables,
                                        !.melody_phrases = Append(@, phrase),
                                        !.current_time =
                                            RatAdd(@, NotesDuration(phrase.notes)),
                                        !.line_idx = @ + 1]
                            /\ draws' = Append(draws, [jitter |-> jitter])
                            /\ UNCHANGED <<pc, error>>
    /\ UNCHANGED <<call, enhanced_data, melody, vocals, song, raised, conv, result>>
    /\ UNCHANGED histVars

\* a variant whose totals leave out the last phrase
BuildMelody_LastPhraseLeftOut(frame) ==
    LET n == Len(frame.melody_phrases)
    IN  [phrases |-> frame.melody_phrases,
         audio_features |-> frame.audio_features,
         structure |-> frame.lyric_analysis,
         total_duration |-> IF n = 0 THEN Zero ELSE frame.melody_phrases[n].start_time,
         note_count |-> IntSum([i \in 1..(IF n = 0 THEN 0 ELSE n - 1) |->
                                   Len(frame.melody_phrases[i].notes)])]

\* the GeneratedMelody built after the loop
BuildMelody(frame) ==
    [phrases |-> frame.melody_phrases,
     audio_features |-> frame.audio_features,
     structure |-> frame.lyric_analysis,
     total_duration |-> frame.current_time,
     note_count |-> IntSum([i \in 1..Len(frame.melody_phrases) |->
                               Len(frame.melody_phrases[i].notes)])]

FinishMelody ==
    /\ call.entry = "generate_song"
    /\ pc = "phrases"
    /\ mg.line_idx = Len(mg.lyric_analysis.lines)
    /\ melody' = BuildMelody(mg)
    /\ pc' = "melody"
    /\ UNCHANGED <<call, enhanced_data, mg, vocals, song, error, raised, conv, result, draws>>
    /\ UNCHANGED histVars

\* the call of generate_vocals_with_melody
GenerateVocals ==
    /\ call.entry = "generate_song"
    /\ pc = "melody"
    /\ \E noise \in NoisePatterns :
          LET exception == VocalsException(melody, noise)
          IN  IF exception # None
              THEN /\ Except(exception)
                   /\ UNCHANGED <<vocals, draws>>
              ELSE /\ vocals' = GenerateVocalsWithMelody(enhanced_data.lyrics, melody,
                                    Get(enhanced_data, "vocal_settings", None),
                                    Get(enhanced_data, "user_voice_sample", None), noise)
                   /\ draws' = Append(draws, [noise |-> noise])
                   /\ pc' = "vocals"
                   /\ UNCHANGED error
    /\ UNCHANGED <<call, enhanced_data, mg, melody, song, raised, conv, result>>
    /\ UNCHANGED histVars

\* f"song_{int(time.time())}"
SongId(now) == <<"s","o","n","g","_">> \o IntToStr(now)

\* title.lower().replace(' ', '_')
FileName(title) ==
    [i \in 1..Len(title) |-> IF title[i] = " " THEN "_" ELSE LowerChar(title[i])]

\* the Song object built at the end of generate_song
MakeSong(data, the_melody, the_vocals, now) ==
    [id |-> SongId(now),
     title |-> data.title,
     lyrics |-> data.lyrics,
     genre |-> data.genre,
     mood |-> data.mood,
     tempo |-> data.tempo,
     melody |-> the_melody,
     vocals |-> the_vocals,
     audio_url |-> <<"/","g","e","n","e","r","a","t","e","d","/">>
                   \o FileName(data.title) \o <<".","w","a","v">>,
     created_at |-> now]

ReturnSong ==
    /\ call.entry = "generate_song"
    /\ pc = "vocals"
    /\ IF "title" \notin DOMAIN enhanced_data
       THEN /\ Except(Raise("KeyError", "generate_song"))
            /\ UNCHANGED <<song, song_ids>>
       ELSE /\ song' = MakeSong(enhanced_data, melody, vocals, clock)
            /\ song_ids' = Append(song_ids, SongId(clock))
            /\ pc' = "returned"
            /\ UNCHANGED error
    /\ UNCHANGED <<call, enhanced_data, mg, melody, vocals, raised, conv, result, draws>>
    /\ UNCHANGED <<generated_songs, clock, calls, walk, first, unit>>

\* a variant that raises a fresh exception which knows nothing of the caught one
WrapError_WithoutCause(caught) ==
    [exc |-> "Exception",
     message |-> <<"Failed to generate song: ">>,
     context |-> None]

\* raise Exception(f'Failed to generate song: {str(error)}') inside the
\* except clause: the new exception carries the caught one as its context
WrapError(caught) ==
    [exc |-> "Exception",
     message |-> <<"Failed to generate song: ", caught.exc>>,
     context |-> caught]

HandleError ==
    /\ call.entry = "generate_song"
    /\ pc = "except"
    /\ raised' = Append(raised, WrapError(error))
    /\ pc' = "raised"
    /\ UNCHANGED <<call, enhanced_data, mg, melody, vocals, song, error, conv, result, draws>>
    /\ UNCHANGED histVars

(***************************************************************************)
(* LyricsToMelodyGenerator.convert_lyrics_to_melody.                       *)
(***************************************************************************)
\* convert_lyrics_to_melody up to the line loop; root is the draw of
\* np.random.choice([60, 62, 64, 67])
ConvertFrame(lyrics, root) ==
    LET lines == NonBlankLines(lyrics)
        emotional_arc == Map(LineEmotion, lines)
    IN  [lines |-> lines,
         emotional_arc |-> emotional_arc,
         scale_name |-> ScaleFromEmotion(AvgEmotion(emotional_arc)),
         root_note |-> root,
         melody_lines |-> <<>>,
         current_beat |-> Zero,
         line_idx |-> 0,
         syllable_data |-> <<>>]

ConvertStart ==
    /\ call.entry = "convert_lyrics_to_melody"
    /\ pc = "called"
    /\ \E root \in {60, 62, 64, 67} : conv' = ConvertFrame(call.arg.lyrics, root)
    /\ pc' = "lines"
    /\ UNCHANGED <<call, result>>
    /\ UNCHANGED songVars
    /\ UNCHANGED histVars

\* a variant that takes the beat after the line as the start of its phrase
SimplePhrase_StartsAtEnd(notes, current_beat, emotion_weight) ==
    [notes |-> notes,
     start_beat |-> current_beat,
     emotion_weight |-> emotion_weight,
     stress_pattern |-> [i \in 1..Len(notes) |-> notes[i].velocity > 80]]

\* the Phrase built from the notes of one line; current_beat already counts them
SimplePhrase(notes, current_beat, emotion_weight) ==
    [notes |-> notes,
     start_beat |-> RatSub(current_beat, NotesDuration(notes)),
     emotion_weight |-> emotion_weight,
     stress_pattern |-> [i \in 1..Len(notes) |-> notes[i].velocity > 80]]

\* one iteration of the loop over the lines
ConvertLine ==
    /\ call.entry = "convert_lyrics_to_melody"
    /\ pc = "lines"
    /\ conv.line_idx < Len(conv.lines)
    /\ LET line == conv.lines[conv.line_idx + 1]
           syllable_data == analyze_syllables(line)
           slots == SyllableSlots(syllable_data)
           ctx == [root_note |-> conv.root_note,
                   scale_notes |-> scales[conv.scale_name],
                   tempo |-> call.arg.tempo]
       IN  \E jitter \in [1..Len(slots) -> Jitter] :
              LET notes == WalkSimpleNotes(slots, jitter, 1, conv.root_note + 12, ctx)
                  current_beat == RatAdd(conv.current_beat, NotesDuration(notes))
              IN  conv' = [conv EXCEPT
                             !.syllable_data = syllable_data,
                             !.current_beat = current_beat,
                             !.melody_lines =
                                 Append(@, SimplePhrase(notes, current_beat,
                                              conv.emotional_arc[conv.line_idx + 1])),
                             !.line_idx = @ + 1]
    /\ UNCHANGED <<call, pc, result>>
    /\ UNCHANGED songVars
    /\ UNCHANGED histVars

\* the dict convert_lyrics_to_melody returns
ConvertResult(args, frame) ==
    [lyrics |-> args.lyrics,
     key |-> frame.root_note,
     scale |-> frame.scale_name,
     tempo |-> args.tempo,
     melody_lines |-> frame.melody_lines,
     total_duration |-> frame.current_beat,
     note_count |-> IntSum([i \in 1..Len(frame.melody_lines) |->
                               Len(frame.melody_lines[i].notes)]),
     emotional_arc |-> frame.emotional_arc]

ConvertFinish ==
    /\ call.entry = "convert_lyrics_to_melody"
    /\ pc = "lines"
    /\ conv.line_idx = Len(conv.lines)
    /\ result' = ConvertResult(call.arg, conv)
    /\ pc' = "returned"
    /\ UNCHANGED <<call, conv>>
    /\ UNCHANGED songVars
    /\ UNCHANGED histVars

(***************************************************************************)
(* MusicGenerator.generate_music.                                          *)
(***************************************************************************)
\* MusicGenerator.analyze_lyrics
analyze_lyrics(lyrics) ==
    LET words == SplitWords(Lower(lyrics))
        positive_words == {<<"l","o","v","e">>, <<"h","a","p","p","y">>, <<"j","o","y">>,
                           <<"a","m","a","z","i","n","g">>,
                           <<"b","e","a","u","t","i","f","u","l">>,
                           <<"w","o","n","d","e","r","f","u","l">>}
        negative_words == {<<"s","a","d">>, <<"p","a","i","n">>, <<"h","u","r","t">>,
                           <<"b","r","o","k","e","n">>, <<"l","o","n","e","l","y">>,
                           <<"d","a","r","k">>}
        pos_score == Cardinality({i \in 1..Len(words) : words[i] \in positive_words})
        neg_score == Cardinality({i \in 1..Len(words) : words[i] \in negative_words})
    IN  [word_count |-> Len(words),
         line_count |-> Len(SplitOn(lyrics, "\n")),
         sentiment |-> IF pos_score > neg_score THEN "positive"
                       ELSE IF neg_score > pos_score THEN "negative"
                       ELSE "neutral",
         complexity |-> IF Len(words) > 100 THEN "high"
                        ELSE IF Len(words) > 50 THEN "medium" ELSE "low"]

\* f"song_{len(self.generated_songs) + 1}"
MusicId(songs) == <<"s","o","n","g","_">> \o IntToStr(Len(songs) + 1)

\* the dict generate_music returns; the randomly drawn audio features and
\* section durations are not represented
MusicResult(config, songs, now) ==
    [id |-> MusicId(songs),
     title |-> config.title,
     config |-> config,
     lyrics_analysis |-> analyze_lyrics(config.lyrics),
     file_path |-> <<"g","e","n","e","r","a","t","e","d","/">>
                   \o FileName(config.title) \o <<".","w","a","v">>,
     generated_at |-> now]

\* the whole of generate_music; it sleeps three times one second
GenerateMusic ==
    /\ call.entry = "generate_music"
    /\ pc = "called"
    /\ clock' = clock + 3
    /\ result' = MusicResult(call.arg, generated_songs, clock')
    /\ generated_songs' = Append(generated_songs, result')
    /\ pc' = "returned"
    /\ UNCHANGED <<call, conv, song_ids, calls, walk, first, unit>>
    /\ UNCHANGED songVars

(***************************************************************************)
(* The environment: time passes, the caller calls again.                   *)
(***************************************************************************)
Tick ==
    /\ clock < MaxClock
    /\ clock' = clock + 1
    /\ UNCHANGED <<call, pc, conv, result, generated_songs, song_ids, calls, walk, first, unit>>
    /\ UNCHANGED songVars

NextCall ==
    /\ pc \in {"returned", "raised"}
    /\ calls < MaxCalls
    /\ calls' = calls + 1
    /\ \E c \in FewCalls :
          /\ call' = c
          /\ pc' = "called"
          /\ enhanced_data' = None
          /\ mg' = None
          /\ melody' = None
          /\ vocals' = None
          /\ song' = None
          /\ error' = None
          /\ raised' = <<>>
          /\ conv' = None
          /\ result' = None
          /\ draws' = <<>>
    /\ UNCHANGED <<generated_songs, song_ids, clock, walk, first, unit>>

(***************************************************************************)
(* Specifications.                                                         *)
(***************************************************************************)
\* one call, of any of the three entry points
Next ==
    \/ Enhance
    \/ StartMelody
    \/ GeneratePhrase
    \/ FinishMelody
    \/ GenerateVocals
    \/ ReturnSong
    \/ HandleError
    \/ ConvertStart
    \/ ConvertLine
    \/ ConvertFinish
    \/ GenerateMusic

Spec == Init /\ [][Next]_vars

\* several calls in a row while time passes
InitCalls == InitWith(FewCalls)

NextCalls ==
    \/ Enhance
    \/ StartMelody
    \/ GeneratePhrase
    \/ FinishMelody
    \/ GenerateVocals
    \/ ReturnSong
    \/ HandleError
    \/ ConvertStart
    \/ ConvertLine
    \/ ConvertFinish
    \/ GenerateMusic
    \/ Tick
    \/ NextCall

SpecCalls == InitCalls /\ [][NextCalls]_vars

(***************************************************************************)
(* The pitch cursor of one line, followed syllable by syllable for every   *)
(* root, scale, stress flag, word weight and random variation.             *)
(***************************************************************************)
\* the roots np.random.choice can return in either generator
Roots == {60, 62, 64, 67} \cup {57, 59, 61, 65} \cup {60, 62, 65, 67}

\* the weights a word can have
WordWeights == {emotion_weights[w] : w \in DOMAIN emotion_weights} \cup {Zero}

InitWalk ==
    /\ StartOf([entry |-> "none", arg |-> [lyrics |-> <<>>]])
    /\ generated_songs = <<>>
    /\ song_ids = <<>>
    /\ clock = 0
    /\ calls = 0
    /\ first = None
    /\ unit = None
    /\ \E root \in Roots, scale_name \in DOMAIN scales :
          walk = [root_note |-> root,
                  scale_name |-> scale_name,
                  current_pitch |-> root + 12,
                  final_pitch |-> root + 12,
                  steps |-> 0]

\* one pass of the syllable loop: the pitch part of lines 344-362 of
\* enhanced_music_generator.py and 169-186 of lyrics_to_melody.py
WalkStep ==
    /\ walk # None
    /\ \E is_stressed \in BOOLEAN, word_emotion \in WordWeights, variation \in Jitter :
          LET current_pitch == walk.current_pitch
                               + PitchChange(is_stressed, word_emotion) + variation
          IN  /\ Abs(current_pitch - (walk.root_note + 12)) <= MaxDrift
              /\ walk' = [walk EXCEPT
                             !.current_pitch = current_pitch,
                             !.final_pitch = FinalPitch(current_pitch, walk.root_note,
                                                        scales[walk.scale_name]),
                             !.steps = 1]
    /\ UNCHANGED <<call, pc, conv, result, generated_songs, song_ids, clock, calls, first, unit>>
    /\ UNCHANGED songVars

NextWalk == WalkStep

SpecWalk == InitWalk /\ [][NextWalk]_vars

(***************************************************************************)
(* generate_song called twice with the same song_data: the second call      *)
(* starts when the first is over, and draws its random values afresh.      *)
(***************************************************************************)
TwiceCalls ==
    {[entry |-> "generate_song", arg |-> a] :
        a \in {[title |-> Title, lyrics |-> Sad, genre |-> Pop,
                mood |-> <<"H","a","p","p","y">>, tempo |-> 120],
               [title |-> Title, lyrics |-> <<"a"," ","s","a","d">>,
                genre |-> <<"f","o","l","k">>, mood |-> <<"m","o","o","d","y">>,
                tempo |-> 90],
               [title |-> Title, lyrics |-> <<>>,
                genre |-> <<"e","l","e","c","t","r","o","n","i","c">>, mood |-> Sad],
               [title |-> Title, lyrics |-> <<"[","x">>, genre |-> Pop,
                mood |-> Sad, tempo |-> 120]}}

InitTwice == InitWith(TwiceCalls)

\* the caller keeps what the first call made and calls again
Again ==
    /\ call.entry = "generate_song"
    /\ pc \in {"returned", "raised"}
    /\ first = None
    /\ first' = [draws |-> draws, melody |-> melody, vocals |-> vocals]
    /\ calls' = calls + 1
    /\ pc' = "called"
    /\ enhanced_data' = None
    /\ mg' = None
    /\ melody' = None
    /\ vocals' = None
    /\ song' = None
    /\ error' = None
    /\ raised' = <<>>
    /\ draws' = <<>>
    /\ UNCHANGED <<call, conv, result, generated_songs, song_ids, clock, walk, unit>>

NextTwice ==
    \/ Enhance
    \/ StartMelody
    \/ GeneratePhrase
    \/ FinishMelody
    \/ GenerateVocals
    \/ ReturnSong
    \/ HandleError
    \/ Again

SpecTwice == InitTwice /\ [][NextTwice]_vars

(***************************************************************************)
(* EnhancedMelodyGenerator._determine_key_and_scale called on its own, for  *)
(* every emotional arc of a few lines and moods in and out of the table.    *)
(***************************************************************************)
\* the line emotions of the arcs: the word weights and the threshold -0.3
ArcValues == WordWeights \cup {Rat(-3, 10)}

Arcs == UNION {[1..n -> ArcValues] : n \in 0..MaxArc}

Moods == {<<"H","a","p","p","y">>, <<"S","A","D">>, <<"c","a","l","m">>,
          <<"m","o","o","d","y">>, <<>>}

InitKey ==
    /\ StartOf([entry |-> "none", arg |-> [lyrics |-> <<>>]])
    /\ generated_songs = <<>>
    /\ song_ids = <<>>
    /\ clock = 0
    /\ calls = 0
    /\ walk = None
    /\ first = None
    /\ \E emotional_arc \in Arcs, mood \in Moods :
          unit = [fn |-> "_determine_key_and_scale",
                  emotional_arc |-> emotional_arc,
                  mood |-> mood,
                  returned |-> None]

\* the whole of _determine_key_and_scale; root_note is np.random.choice's draw
DetermineKeyAndScale ==
    /\ unit # None
    /\ unit.fn = "_determine_key_and_scale"
    /\ unit.returned = None
    /\ \E root_note \in RootCandidates(unit.emotional_arc) :
          unit' = [unit EXCEPT !.returned =
                      [root_note |-> root_note,
                       scale_name |-> DetermineScale(unit.emotional_arc, unit.mood)]]
    /\ UNCHANGED <<call, pc, conv, result, generated_songs, song_ids, clock, calls,
                   walk, first>>
    /\ UNCHANGED songVars

NextKey == DetermineKeyAndScale

SpecKey == InitKey /\ [][NextKey]_vars

(***************************************************************************)
(* generate_song on the two end-to-end scenarios: "Love is all we need"    *)
(* and the empty lyrics, both as a pop song of mood happy at tempo 120.    *)
(***************************************************************************)
ScenarioCalls ==
    {[entry |-> "generate_song",
      arg |-> [title |-> Title, lyrics |-> lyrics, genre |-> Pop,
               mood |-> <<"h","a","p","p","y">>, tempo |-> 120]] :
        lyrics \in {<<"L","o","v","e"," ","i","s"," ","a","l","l"," ","w","e"," ",
                      "n","e","e","d">>,
                    <<>>}}

InitScenarios == InitWith(ScenarioCalls)

NextSong ==
    \/ Enhance
    \/ StartMelody
    \/ GeneratePhrase
    \/ FinishMelody
    \/ GenerateVocals
    \/ ReturnSong
    \/ HandleError

SpecScenarios == InitScenarios /\ [][NextSong]_vars

(***************************************************************************)
(* EnhancedMelodyGenerator._generate_audio_features called on its own, and *)
(* its two adjustments applied once more to the profile it returned.       *)
(***************************************************************************)
Genres == {Pop, <<"R","o","c","k">>, <<"e","l","e","c","t","r","o","n","i","c">>,
           <<"f","o","l","k">>, <<"j","a","z","z">>}

FeatureMoods == Moods \cup {<<"e","n","e","r","g","e","t","i","c">>,
                            <<"m","y","s","t","e","r","i","o","u","s">>,
                            <<"U","p","l","i","f","t","i","n","g">>}

InitFeatures ==
    /\ StartOf([entry |-> "none", arg |-> [lyrics |-> <<>>]])
    /\ generated_songs = <<>>
    /\ song_ids = <<>>
    /\ clock = 0
    /\ calls = 0
    /\ walk = None
    /\ first = None
    /\ \E genre \in Genres, mood \in FeatureMoods, tempo \in {90, 120},
           root_note \in Roots, scale_name \in {"major", "dorian"} :
          unit = [fn |-> "_generate_audio_features",
                  genre |-> genre,
                  mood |-> mood,
                  tempo |-> tempo,
                  root_note |-> root_note,
                  scale_name |-> scale_name,
                  returned |-> None,
                  again |-> None]

\* the whole of _generate_audio_features
CallGenerateAudioFeatures ==
    /\ unit # None
    /\ unit.fn = "_generate_audio_features"
    /\ unit.returned = None
    /\ unit' = [unit EXCEPT !.returned =
                   GenerateAudioFeatures(unit.genre, unit.mood, unit.tempo,
                                         unit.root_note, unit.scale_name)]
    /\ UNCHANGED <<call, pc, conv, result, generated_songs, song_ids, clock, calls,
                   walk, first>>
    /\ UNCHANGED songVars

\* the mood and the genre adjustment applied to the returned profile
AdjustAgain ==
    /\ unit # None
    /\ unit.fn = "_generate_audio_features"
    /\ unit.returned # None
    /\ unit.again = None
    /\ unit' = [unit EXCEPT !.again =
                   ApplyGenre(ApplyMood(unit.returned, unit.mood), unit.genre)]
    /\ UNCHANGED <<call, pc, conv, result, generated_songs, song_ids, clock, calls,
                   walk, first>>
    /\ UNCHANGED songVars

NextFeatures ==
    \/ CallGenerateAudioFeatures
    \/ AdjustAgain

SpecFeatures == InitFeatures /\ [][NextFeatures]_vars

(***************************************************************************)
(* EnhancedVocalGenerator._extract_pitch_contour and _generate_dynamics    *)
(* called on their own, on a melody of one Phrase of one or two Notes.     *)
(* A stream that is still empty has not been made: every Note gets a       *)
(* sample.                                                                 *)
(***************************************************************************)
InitStreams ==
    /\ StartOf([entry |-> "none", arg |-> [lyrics |-> <<>>]])
    /\ generated_songs = <<>>
    /\ song_ids = <<>>
    /\ clock = 0
    /\ calls = 0
    /\ walk = None
    /\ first = None
    /\ LET Durations == {Rat(1, 20), Rat(3, 20), Rat(5, 4)}
                         \cup {Rat(k, 10) : k \in 1..MaxPoints}
           FirstNotes == {[pitch |-> 72, duration |-> d, velocity |-> v, syllable |-> Sad] :
                             d \in Durations, v \in 40..127}
           MoreNotes == {<<>>}
                        \cup {<<[pitch |-> 74, duration |-> d, velocity |-> 90,
                                 syllable |-> Sad]>> :
                                 d \in {Rat(3, 20), Rat(1, 2), Rat(3, 4)}}
       IN  \E note \in FirstNotes, more \in MoreNotes, noise \in NoisePatterns :
              unit = [fn |-> "streams",
                      melody |-> [phrases |-> <<[notes |-> <<note>> \o more]>>],
                      noise |-> noise,
                      pitch_contour |-> <<>>,
                      dynamics |-> <<>>]

\* the whole of _extract_pitch_contour
CallExtractPitchContour ==
    /\ unit # None
    /\ unit.fn = "streams"
    /\ unit.pitch_contour = <<>>
    /\ unit' = [unit EXCEPT !.pitch_contour = ExtractPitchContour(unit.melody, unit.noise)]
    /\ UNCHANGED <<call, pc, conv, result, generated_songs, song_ids, clock, calls,
                   walk, first>>
    /\ UNCHANGED songVars

\* the whole of _generate_dynamics
CallGenerateDynamics ==
    /\ unit # None
    /\ unit.fn = "streams"
    /\ unit.dynamics = <<>>
    /\ unit' = [unit EXCEPT !.dynamics = GenerateDynamics(unit.melody)]
    /\ UNCHANGED <<call, pc, conv, result, generated_songs, song_ids, clock, calls,
                   walk, first>>
    /\ UNCHANGED songVars

NextStreams ==
    \/ CallExtractPitchContour
    \/ CallGenerateDynamics

SpecStreams == InitStreams /\ [][NextStreams]_vars

(***************************************************************************)
(* Properties.                                                             *)
(***************************************************************************)
\* the Phrases the generator at work has made so far
PhrasesSoFar ==
    IF mg # None THEN mg.melody_phrases
    ELSE IF conv # None THEN conv.melody_lines
    ELSE <<>>

\* every Note made so far
NotesSoFar ==
    Flatten([i \in 1..Len(PhrasesSoFar) |-> PhrasesSoFar[i].notes])

\* C1: _generate_phoneme_timing never divides by zero; for every Note of the
\* melody it emits at least one PhonemeEvent, and the durations of a Note's
\* PhonemeEvents sum to the Note's duration.
C1_PhonemeEventsCoverEveryNote ==
    /\ error # Raise("ZeroDivisionError", "_generate_phoneme_timing")
    /\ vocals # None =>
          /\ Len(vocals.phoneme_timing) >= Len(AllNotes(melody))
          /\ \A i \in 1..Len(AllNotes(melody)) :
                LET note == AllNotes(melody)[i]
                    events == NotePhonemeTiming(note)
                IN  /\ Len(events) >= 1
                    /\ RatSum([k \in 1..Len(events) |-> events[k].duration])
                           = note.duration

\* C2: generate_song on the empty lyrics "" raises no failure and yields a
\* Melody with zero Phrases, note count 0 and total duration 0.
C2_EmptyLyricsGiveAnEmptyMelody ==
    (call.entry = "generate_song" /\ call.arg.lyrics = <<>>) =>
        /\ pc \notin {"except", "raised"}
        /\ pc = "returned" =>
              /\ song.melody.phrases = <<>>
              /\ song.melody.note_count = 0
              /\ song.melody.total_duration = Zero

\* C3: after any sequence of pitch-cursor steps, for every root and scale, the
\* pitch of the Note made by the last step, taken relative to the root modulo
\* 12, is one of the pitch classes of the scale.
C3_PitchesStayInTheScale ==
    (walk # None /\ walk.steps = 1) =>
        \E i \in 1..Len(scales[walk.scale_name]) :
            scales[walk.scale_name][i] = (walk.final_pitch - walk.root_note) % 12

\* a step took the cursor below the root, to a pitch off the scale
C3_CursorBelowRoot ==
    /\ walk # None
    /\ walk.steps = 1
    /\ walk.current_pitch < walk.root_note
    /\ walk.final_pitch # walk.current_pitch

\* the lines of a text that are not empty after trimming, trimmed, in order
TrimmedLines(text) ==
    LET raw == SplitOn(text, "\n")
        kept == {i \in 1..Len(raw) : \E k \in 1..Len(raw[i]) : raw[i][k] \notin Whitespace}
        nth(n) == CHOOSE i \in kept : Cardinality({j \in kept : j < i}) = n - 1
    IN  [n \in 1..Cardinality(kept) |-> Strip(raw[nth(n)])]

\* C4: the Melody of generate_melody_from_lyrics has one Phrase per non-blank
\* line of the text, in the order of the lines (and so has the result of
\* convert_lyrics_to_melody).
C4_OnePhrasePerNonBlankLine ==
    /\ (call.entry = "generate_song" /\ melody # None) =>
          LET lines == TrimmedLines(enhanced_data.lyrics)
          IN  /\ Len(melody.phrases) = Len(lines)
              /\ \A i \in 1..Len(lines) : melody.phrases[i].lyric_line = lines[i]
    /\ (call.entry = "convert_lyrics_to_melody" /\ result # None) =>
          /\ Len(result.melody_lines) = Len(TrimmedLines(call.arg.lyrics))
          /\ conv.lines = TrimmedLines(call.arg.lyrics)

\* a melody of two Phrases was made of a text of three lines, one of them blank
C4_BlankLineSkipped ==
    /\ call.entry = "generate_song"
    /\ melody # None
    /\ Len(melody.phrases) = 2
    /\ Len(SplitOn(enhanced_data.lyrics, "\n")) = 3

\* the stress pattern of every entry is as long as the word has syllables
StressMatchesSyllables(syllable_data) ==
    \A i \in 1..Len(syllable_data) :
        /\ syllable_data[i].syllable_count = Max(1, VowelCount(syllable_data[i].word))
        /\ Len(syllable_data[i].stress_pattern) = syllable_data[i].syllable_count

\* C5: for every WordUnit of syllable analysis, in either generator, the
\* stress pattern is as long as the syllable count (the vowel count floored at
\* 1), also for the words of the override table.
C5_StressPatternAsLongAsSyllables ==
    /\ conv # None => StressMatchesSyllables(conv.syllable_data)
    /\ mg # None => StressMatchesSyllables(mg.line_syllables)

\* C6: every Note made from lyrics at a positive tempo has a velocity in
\* [40, 127] and a duration greater than 0.
C6_VelocityInRangeDurationPositive ==
    \A i \in 1..Len(NotesSoFar) :
        /\ NotesSoFar[i].velocity \in 40..127
        /\ RatLt(Zero, NotesSoFar[i].duration)

\* a stressed Note was made in a line of the lowest emotion weight of the table
C6_NoteOfSaddestLine ==
    /\ mg # None
    /\ \E i \in 1..Len(mg.melody_phrases) :
          /\ mg.melody_phrases[i].emotion_weight = Rat(-8, 10)
          /\ \E k \in 1..Len(mg.melody_phrases[i].notes) :
                mg.melody_phrases[i].notes[k].velocity >= 90

\* the time from the start of a Phrase to the end of its last Note
PhraseSpan(phrase) ==
    IF phrase.notes = <<>> THEN Zero
    ELSE LET last == phrase.notes[Len(phrase.notes)]
         IN  RatSub(RatAdd(last.timestamp, last.duration), phrase.start_time)

\* C7: in every Phrase the Notes' durations sum to the Phrase's span, the
\* first Note starts at the Phrase's start time, and every later Note starts
\* where the Note before it ends, so that timestamps never decrease.
C7_NotesTileThePhrase ==
    mg # None =>
        \A i \in 1..Len(mg.melody_phrases) :
            LET phrase == mg.melody_phrases[i]
                notes == phrase.notes
            IN  /\ NotesDuration(notes) = PhraseSpan(phrase)
                /\ notes # <<>> => notes[1].timestamp = phrase.start_time
                /\ \A k \in 2..Len(notes) :
                      /\ notes[k].timestamp
                             = RatAdd(notes[k - 1].timestamp, notes[k - 1].duration)
                      /\ RatLe(notes[k - 1].timestamp, notes[k].timestamp)

\* a Phrase of several Notes that does not start at 0
C7_LaterPhraseOfSeveralNotes ==
    /\ mg # None
    /\ \E i \in 1..Len(mg.melody_phrases) :
          /\ Len(mg.melody_phrases[i].notes) >= 2
          /\ RatLt(Zero, mg.melody_phrases[i].start_time)

\* the start of a Phrase of either generator
PhraseStart(phrase) ==
    IF "start_time" \in DOMAIN phrase THEN phrase.start_time ELSE phrase.start_beat

\* the duration of all Notes of the first n Phrases
DurationBefore(phrases, n) ==
    RatSum([j \in 1..n |-> NotesDuration(phrases[j].notes)])

\* C8: every Phrase starts at the cumulative duration of the Notes of all
\* earlier Phrases (0 for the first), and the running time is that of all
\* Phrases; so a Phrase without Notes and its successor start at the same time.
C8_PhraseStartsAfterEarlierNotes ==
    /\ \A i \in 1..Len(PhrasesSoFar) :
          PhraseStart(PhrasesSoFar[i]) = DurationBefore(PhrasesSoFar, i - 1)
    /\ mg # None => mg.current_time = DurationBefore(PhrasesSoFar, Len(PhrasesSoFar))
    /\ conv # None => conv.current_beat = DurationBefore(PhrasesSoFar, Len(PhrasesSoFar))

\* a Phrase without Notes between two Phrases that have Notes
C8_EmptyPhraseInTheMiddle ==
    /\ conv # None
    /\ Len(conv.melody_lines) = 3
    /\ conv.melody_lines[1].notes # <<>>
    /\ conv.melody_lines[2].notes = <<>>
    /\ conv.melody_lines[3].notes # <<>>
    /\ conv.melody_lines[3].start_beat = conv.melody_lines[2].start_beat
    /\ RatLt(Zero, conv.melody_lines[3].start_beat)

\* C9: any two generation calls produce Songs with different identifiers:
\* two calls of generate_song, also within one clock second, and successive
\* calls of generate_music on one MusicGenerator.
C9_SongIdsAreUnique ==
    /\ \A i, j \in 1..Len(song_ids) : i # j => song_ids[i] # song_ids[j]
    /\ \A i, j \in 1..Len(generated_songs) :
          i # j => generated_songs[i].id # generated_songs[j].id

\* C10: generate_song either returns a complete Song, with the Melody and the
\* vocals attached, or raises exactly one wrapped failure that carries the
\* original exception; when a stage raised, no Song is returned.
C10_SongOrOneWrappedFailure ==
    call.entry = "generate_song" =>
        /\ (song # None) <=> (pc = "returned")
        /\ pc = "returned" =>
              /\ melody # None /\ song.melody = melody
              /\ vocals # None /\ song.vocals = vocals
              /\ error = None
        /\ (raised # <<>>) <=> (pc = "raised")
        /\ error # None => song = None /\ pc \in {"except", "raised"}
        /\ pc = "raised" =>
              /\ Len(raised) = 1
              /\ raised[1].exc = "Exception"
              /\ error # None
              /\ raised[1].context = error

\* vocal derivation raised after the melody was made; the failure was raised
C10_FailureAfterMelody ==
    /\ call.entry = "generate_song"
    /\ pc = "raised"
    /\ melody # None
    /\ error.at = "_generate_phoneme_timing"

\* C11: a generation call given a VoiceProfile with an inverted pitch range
\* (low >= high) never completes with the inverted range carried into the
\* Song: the range recorded in the returned Song has low < high.
C11_ReturnedPitchRangeIsOrdered ==
    (call.entry = "generate_song" /\ pc = "returned") =>
        LET used == song.vocals.vocal_track.metadata.voice_settings.pitch_range
        IN  used[1] < used[2]

ArcAverage(arc) ==
    IF Len(arc) = 0 THEN Zero
    ELSE RatMul(RatSum(arc), Rat(1, Len(arc)))

\* _determine_key_and_scale has returned
KeyReturned ==
    /\ unit # None
    /\ unit.fn = "_determine_key_and_scale"
    /\ unit.returned # None

\* C13: when the mood, in lower case, is in the mood table the scale is the
\* table's, whatever the lyrics' emotion; otherwise the scale is major for
\* an average line emotion above 0.3, minor below -0.3 and dorian in
\* between, the two thresholds and an arc without lines included.
C13_ScaleByMoodThenEmotion ==
    KeyReturned =>
        LET avg == ArcAverage(unit.emotional_arc)
            scale_name == unit.returned.scale_name
            known == Lower(unit.mood) \in DOMAIN emotion_mappings
        IN  /\ known => scale_name = emotion_mappings[Lower(unit.mood)].scale
            /\ (~known /\ RatLt(Rat(3, 10), avg)) => scale_name = "major"
            /\ (~known /\ RatLt(avg, Rat(-3, 10))) => scale_name = "minor"
            /\ (~known /\ RatLe(Rat(-3, 10), avg) /\ RatLe(avg, Rat(3, 10)))
                   => scale_name = "dorian"

\* an unknown mood and an average of exactly 0.3 over two different lines
C13_AverageOnTheThreshold ==
    /\ KeyReturned
    /\ unit.mood = <<"m","o","o","d","y">>
    /\ Len(unit.emotional_arc) = 2
    /\ unit.emotional_arc[1] # unit.emotional_arc[2]
    /\ ArcAverage(unit.emotional_arc) = Rat(3, 10)
    /\ unit.returned.scale_name = "dorian"

\* C14: the root _determine_key_and_scale returns is one of {60,62,64,67}
\* when the average emotion is above 0.5, of {57,59,61,65} when it is below
\* -0.5 and of {60,62,65,67} otherwise, whatever the mood.
C14_RootFromTheSetOfTheAverage ==
    KeyReturned =>
        LET avg == ArcAverage(unit.emotional_arc)
            root_note == unit.returned.root_note
        IN  /\ RatLt(Rat(5, 10), avg) => root_note \in {60, 62, 64, 67}
            /\ RatLt(avg, Rat(-5, 10)) => root_note \in {57, 59, 61, 65}
            /\ (RatLe(Rat(-5, 10), avg) /\ RatLe(avg, Rat(5, 10)))
                   => root_note \in {60, 62, 65, 67}

\* the mood 'SAD' with a strongly positive arc: a root of the positive set
C14_SadMoodPositiveArc ==
    /\ KeyReturned
    /\ unit.mood = <<"S","A","D">>
    /\ RatLt(Rat(5, 10), ArcAverage(unit.emotional_arc))
    /\ unit.returned.root_note = 64
    /\ unit.returned.scale_name = "minor"

\* _generate_audio_features has returned
FeaturesReturned ==
    /\ unit # None
    /\ unit.fn = "_generate_audio_features"
    /\ unit.returned # None

\* C15: in the profile _generate_audio_features returns, a known genre's
\* table values stand in every field the table names (energy too, over the
\* mood's), a known mood gives valence 0.8 when its energy is above 0.6 and
\* 0.3 otherwise, and an unknown genre or mood leaves the fields as the
\* stage before left them.
C15_GenreOverridesMood ==
    FeaturesReturned =>
        LET f == unit.returned
            genre == Lower(unit.genre)
            mood == Lower(unit.mood)
            knownGenre == genre \in DOMAIN genre_adjustments
            knownMood == mood \in DOMAIN emotion_mappings
        IN  /\ knownGenre =>
                  \A k \in DOMAIN genre_adjustments[genre] :
                      f[k] = genre_adjustments[genre][k]
            /\ knownMood =>
                  f.valence = IF RatLt(Rat(6, 10), emotion_mappings[mood].energy)
                              THEN Rat(8, 10) ELSE Rat(3, 10)
            /\ (knownMood /\ ~knownGenre) => f.energy = emotion_mappings[mood].energy
            /\ ~knownMood => f.valence = Rat(5, 10)
            /\ (~knownMood /\ ~knownGenre) => f.energy = Rat(7, 10)
            /\ ~knownGenre =>
                  f.danceability = Rat(6, 10) /\ f.acousticness = Rat(3, 10)
            /\ f.tempo = unit.tempo
            /\ f.instrumentalness = Rat(1, 10)

\* the genre 'folk' under the mood 'Happy': the genre's energy, the mood's valence
C15_FolkAndHappy ==
    /\ FeaturesReturned
    /\ unit.genre = <<"f","o","l","k">>
    /\ unit.mood = <<"H","a","p","p","y">>
    /\ unit.returned.energy = Rat(4, 10)
    /\ unit.returned.valence = Rat(8, 10)

\* C16: applying the mood adjustment and then the genre adjustment to a
\* profile that already had them applied gives the same profile.
C16_AdjustingTwiceChangesNothing ==
    (FeaturesReturned /\ unit.again # None) => unit.again = unit.returned

\* adjusted twice for a known mood and a genre that is not in the table
C16_AdjustedTwice ==
    /\ FeaturesReturned
    /\ unit.again # None
    /\ unit.genre = <<"j","a","z","z">>
    /\ unit.mood = <<"S","A","D">>
    /\ unit.again.energy = Rat(4, 10)

\* the durations and the number of the Notes of a list of Phrases
AggregatesOf(phrases) ==
    LET notes == Flatten([i \in 1..Len(phrases) |-> phrases[i].notes])
    IN  [total_duration |-> RatSum([i \in 1..Len(notes) |-> notes[i].duration]),
         note_count |-> Len(notes)]

\* C17: the total duration of a Melody is the sum of the durations of all
\* Notes of all its Phrases and its note count is the number of those Notes,
\* as soon as the Melody is built, after the vocals were derived from it and
\* in the Song returned (and so for the result of convert_lyrics_to_melody).
C17_TotalsAreExactAggregates ==
    /\ (call.entry = "generate_song" /\ melody # None) =>
          /\ melody.total_duration = AggregatesOf(melody.phrases).total_duration
          /\ melody.note_count = AggregatesOf(melody.phrases).note_count
    /\ (call.entry = "generate_song" /\ pc = "returned") =>
          /\ song.melody.total_duration = AggregatesOf(song.melody.phrases).total_duration
          /\ song.melody.note_count = AggregatesOf(song.melody.phrases).note_count
          /\ song.melody.total_duration = melody.total_duration
          /\ song.melody.note_count = melody.note_count
    /\ (call.entry = "convert_lyrics_to_melody" /\ result # None) =>
          /\ result.total_duration = AggregatesOf(result.melody_lines).total_duration
          /\ result.note_count = AggregatesOf(result.melody_lines).note_count

\* a Song returned with its vocals and a Melody of three Notes
C17_SongOfThreeNotes ==
    /\ call.entry = "generate_song"
    /\ pc = "returned"
    /\ vocals # None
    /\ song.melody.note_count = 3
    /\ RatLt(Zero, song.melody.total_duration)

\* the call is generate_song on the lyrics "Love is all we need"
ScenarioA ==
    /\ call.entry = "generate_song"
    /\ Lower(call.arg.lyrics) = <<"l","o","v","e"," ","i","s"," ","a","l","l"," ",
                                  "w","e"," ","n","e","e","d">>

\* C18: for the lyrics "Love is all we need", genre pop, mood happy, tempo
\* 120, whatever is drawn, the scale selected is major, the Melody has
\* exactly one Phrase, that Phrase has Notes, and every Note has a velocity
\* of at least 70.
C18_LoveIsAllWeNeed ==
    ScenarioA =>
        /\ mg # None => mg.scale_name = "major"
        /\ melody # None =>
              /\ Len(melody.phrases) = 1
              /\ melody.phrases[1].notes # <<>>
              /\ \A i \in 1..Len(melody.phrases[1].notes) :
                    melody.phrases[1].notes[i].velocity >= 70
        /\ pc \notin {"except", "raised"}

\* the Song of "Love is all we need" was returned with its seven Notes
C18_SongOfSevenNotes ==
    /\ ScenarioA
    /\ pc = "returned"
    /\ Len(song.melody.phrases[1].notes) = 7
    /\ song.melody.phrases[1].notes[2].velocity = 88

\* C19: when the input of generate_song has no tempo, the tempo in the data
\* _enhance_song_data returns is a positive integer within the tempo range of
\* the input's genre, or of 'pop' when the genre is unknown or absent; when
\* the input has a tempo, the data returned has that tempo.
C19_TempoDefaultFromGenreRange ==
    (call.entry = "generate_song" /\ enhanced_data # None) =>
        IF "tempo" \in DOMAIN call.arg
        THEN enhanced_data.tempo = call.arg.tempo
        ELSE LET genre == IF "genre" \in DOMAIN call.arg
                          THEN Lower(call.arg.genre) ELSE Pop
                 range == IF genre \in DOMAIN genre_configs
                          THEN genre_configs[genre].tempo_range
                          ELSE genre_configs[Pop].tempo_range
             IN  /\ enhanced_data.tempo \in Nat
                 /\ enhanced_data.tempo > 0
                 /\ range[1] <= enhanced_data.tempo
                 /\ enhanced_data.tempo <= range[2]

\* a tempo was drawn for the genre 'Rock', above the range of 'pop'
C19_TempoDrawnForRock ==
    /\ call.entry = "generate_song"
    /\ "tempo" \notin DOMAIN call.arg
    /\ "genre" \in DOMAIN call.arg
    /\ call.arg.genre = <<"R","o","c","k">>
    /\ enhanced_data # None
    /\ enhanced_data.tempo = 159

\* C20: the pitch of a Note is root + degree + 12 * floor((cursor - root) / 12),
\* where the degree is the cursor's offset from the root modulo 12 when the
\* scale has that offset, and otherwise the member of the scale at the least
\* absolute distance from the offset, the lower one of two equally near.
C20_NearestScaleMemberLowerOnTies ==
    (walk # None /\ walk.steps = 1) =>
        LET scale == scales[walk.scale_name]
            members == {scale[i] : i \in 1..Len(scale)}
            from_root == walk.current_pitch - walk.root_note
            octave == CHOOSE q \in -(MaxDrift + 12)..(MaxDrift + 12) :
                          12 * q <= from_root /\ from_root < 12 * (q + 1)
            offset == from_root - 12 * octave
            degree == walk.final_pitch - walk.root_note - 12 * octave
        IN  /\ degree \in members
            /\ offset \in members => degree = offset
            /\ offset \notin members =>
                  \A m \in members :
                      \/ Abs(offset - degree) < Abs(offset - m)
                      \/ Abs(offset - degree) = Abs(offset - m) /\ degree <= m

\* a cursor below the root whose offset lies midway between two members of
\* the scale was moved to the lower one
C20_TieBelowTheRoot ==
    /\ walk # None
    /\ walk.steps = 1
    /\ walk.current_pitch < walk.root_note
    /\ walk.final_pitch = walk.current_pitch - 1
    /\ \E i \in 1..Len(scales[walk.scale_name]) :
          scales[walk.scale_name][i]
              = (walk.current_pitch + 1 - walk.root_note) % 12

\* the sample streams are derived on their own
Streams == unit # None /\ unit.fn = "streams"

\* the Notes the streams are derived from
StreamNotes == unit.melody.phrases[1].notes

\* max(1, floor(10 * duration)), the number of samples of Note j
SamplesOfNote(j) ==
    LET d == StreamNotes[j].duration
        tenfold == CHOOSE q \in 0..(10 * MaxPoints + 10) :
                       q * d.d <= 10 * d.n /\ 10 * d.n < (q + 1) * d.d
    IN  IF tenfold >= 1 THEN tenfold ELSE 1

\* the number of samples of the Notes before Note j
SamplesBeforeNote(j) == IntSum([i \in 1..(j - 1) |-> SamplesOfNote(i)])

\* C21: every sample of the dynamics envelope _generate_dynamics makes lies
\* in [0, 1], for Note velocities from 40 to 127 and any number of samples
\* per Note.
C21_DynamicsWithinZeroAndOne ==
    (Streams /\ unit.dynamics # <<>>) =>
        \A k \in 1..Len(unit.dynamics) :
            /\ RatLe(Zero, unit.dynamics[k])
            /\ RatLe(unit.dynamics[k], RatInt(1))

\* a Note of velocity 127 with attack, sustain at 1 and release
C21_LoudNoteOfManySamples ==
    /\ Streams
    /\ unit.dynamics # <<>>
    /\ Len(StreamNotes) = 1
    /\ StreamNotes[1].velocity = 127
    /\ Len(unit.dynamics) = 12
    /\ RatLt(unit.dynamics[2], RatInt(1))
    /\ unit.dynamics[3] = RatInt(1)
    /\ RatLt(unit.dynamics[12], RatInt(1))

\* C22: the pitch contour and the dynamics envelope have the same length,
\* the sum over the Notes of max(1, floor(10 * duration)); the samples of
\* one Note stand at the same places in both, at least one per Note.
C22_StreamsAlignedNoteByNote ==
    (Streams /\ unit.pitch_contour # <<>> /\ unit.dynamics # <<>>) =>
        /\ Len(unit.pitch_contour) = SamplesBeforeNote(Len(StreamNotes) + 1)
        /\ Len(unit.dynamics) = SamplesBeforeNote(Len(StreamNotes) + 1)
        /\ \A j \in 1..Len(StreamNotes) :
              /\ SamplesOfNote(j) >= 1
              /\ \A k \in (SamplesBeforeNote(j) + 1)..SamplesBeforeNote(j + 1) :
                    /\ unit.pitch_contour[k].pitch = StreamNotes[j].pitch
                    /\ RatLe(unit.dynamics[k], Rat(StreamNotes[j].velocity, 127))
              /\ unit.dynamics[SamplesBeforeNote(j) + 1] = Zero

\* both streams made of a Note of twelve samples and a Note of one
C22_LongNoteThenShortNote ==
    /\ Streams
    /\ unit.pitch_contour # <<>>
    /\ unit.dynamics # <<>>
    /\ Len(StreamNotes) = 2
    /\ StreamNotes[1].duration = Rat(5, 4)
    /\ StreamNotes[2].duration = Rat(3, 20)
    /\ Len(unit.dynamics) = 13
    /\ unit.pitch_contour[13].pitch = 74

\* C25: the first sample _generate_dynamics makes for a Note is exactly 0,
\* whatever the Note's velocity, so that a Note of a duration below 0.2 beats,
\* which gets one sample, contributes the sample 0 and nothing else.
C25_EveryNoteStartsSilent ==
    (Streams /\ unit.dynamics # <<>>) =>
        /\ Len(unit.dynamics) = SamplesBeforeNote(Len(StreamNotes) + 1)
        /\ \A j \in 1..Len(StreamNotes) :
            /\ SamplesBeforeNote(j) < Len(unit.dynamics)
            /\ unit.dynamics[SamplesBeforeNote(j) + 1] = Zero
            /\ unit.dynamics[SamplesBeforeNote(j) + 1]
                   # Rat(StreamNotes[j].velocity, 127)
            /\ RatLt(StreamNotes[j].duration, Rat(2, 10)) => SamplesOfNote(j) = 1

\* the dynamics of a single Note of 0.15 beats at velocity 127 are the sample 0
C25_ShortLoudNoteIsSilent ==
    /\ Streams
    /\ Len(StreamNotes) = 1
    /\ StreamNotes[1].duration = Rat(3, 20)
    /\ StreamNotes[1].velocity = 127
    /\ unit.dynamics = <<Zero>>

\* C23: the pitch of every Note made is a MIDI note number, from 0 to 127,
\* whatever the root, the scale and the syllables and draws before it.
C23_PitchesAreMidiNumbers ==
    (walk # None /\ walk.steps = 1) => walk.final_pitch \in 0..127

\* C24: the note count of the Melody generate_melody_from_lyrics builds is
\* the total syllable count recorded in its structure, and every Phrase has
\* as many Notes as the syllable count recorded for its line, one at least.
C24_NotesMatchRecordedSyllables ==
    (call.entry = "generate_song" /\ melody # None) =>
        /\ melody.note_count = melody.structure.total_syllables
        /\ Len(melody.phrases) = Len(melody.structure.syllable_counts)
        /\ \A i \in 1..Len(melody.phrases) :
              /\ Len(melody.phrases[i].notes) = melody.structure.syllable_counts[i]
              /\ Len(melody.phrases[i].notes) >= 1

\* a Melody of a line of one syllable and a line of two
C24_LinesOfOneAndTwoSyllables ==
    /\ call.entry = "generate_song"
    /\ melody # None
    /\ melody.structure.syllable_counts = <<1, 2>>
    /\ Len(melody.phrases[2].notes) = 2

====
